---- MODULE Spec2Model ----
(***************************************************************************)
(* A model of src/index.js: the backup cycle (processBackup), the Telegram *)
(* notifier (notifyTelegram) and the scheduling of cycles (CronJob and     *)
(* run_on_startup).                                                        *)
(*                                                                         *)
(* A cycle is an async function: it runs synchronously from one await to   *)
(* the next, so each action below is the code between two suspension       *)
(* points.  Several cycles may be in flight at once; they share the        *)
(* configuration (read only), the clock, the child processes of the host   *)
(* and the notifier.                                                       *)
(***************************************************************************)
EXTENDS Integers, Sequences, FiniteSets, TLC

(* ------------------------------ bounds -------------------------------- *)

\* Longest DATABASES list explored.
MaxTargets == 2

\* Longest TELEGRAM_CHAT_IDS list explored.
MaxChats == 2

\* Largest number of cycles in progress at the same time.
MaxCycles == 2

\* Longest DATABASES list explored with cycles overlapping.
MaxOverlapTargets == 1

\* Last second of the clock (the first call of new Date() is in second 0 or later).
MaxTime == 1

(* --------------------------- connection strings ----------------------- *)

PG == "postgresql://u:p@h1:5432/app"
MONGO == "mongodb://u:p@h1:27017/app"
MYSQL == "mysql://u:p@h2:3306/shop"
FTP == "ftp://h1/app"
\* "a,".split(",") is ["a", ""]: a trailing comma in DATABASES gives an empty entry.
EMPTY == ""

URIs == {PG, MONGO, MYSQL, FTP, EMPTY}

\* new URL(databaseURI): the components the code reads, or a TypeError.
URL(uri) ==
  CASE uri = PG    -> [threw |-> FALSE, protocol |-> "postgresql:", pathname |-> "/app",
                       hostname |-> "h1"]
    [] uri = MONGO -> [threw |-> FALSE, protocol |-> "mongodb:", pathname |-> "/app",
                       hostname |-> "h1"]
    [] uri = MYSQL -> [threw |-> FALSE, protocol |-> "mysql:", pathname |-> "/shop",
                       hostname |-> "h2"]
    [] uri = FTP   -> [threw |-> FALSE, protocol |-> "ftp:", pathname |-> "/app",
                       hostname |-> "h1"]
    [] OTHER       -> [threw |-> TRUE, protocol |-> "", pathname |-> "", hostname |-> ""]

\* url.protocol.slice(0, -1)
dbType(url) ==
  CASE url.protocol = "postgresql:" -> "postgresql"
    [] url.protocol = "mongodb:"    -> "mongodb"
    [] url.protocol = "mysql:"      -> "mysql"
    [] url.protocol = "ftp:"        -> "ftp"
    [] OTHER                        -> ""

\* url.pathname.substring(1)
dbName(url) ==
  CASE url.pathname = "/app"  -> "app"
    [] url.pathname = "/shop" -> "shop"
    [] OTHER                  -> ""

\* The cases of the switch that set dumpCommand.
SupportedTypes == {"postgresql", "mongodb", "mysql"}

NoFile == [dbType |-> "", timestamp |-> -1, dbName |-> "", host |-> ""]

\* `backup-${dbType}-${timestamp}-${dbName}-${dbHostname}.tar.gz`; the timestamp has
\* the precision of one second, the unit of the clock.
filename(url, date) ==
  [dbType |-> dbType(url), timestamp |-> date, dbName |-> dbName(url),
   host |-> url.hostname]

(* ------------------------------- state -------------------------------- *)

VARIABLES
  databases,       \* config.databases
  isEnabled,       \* config.notify.telegram.isEnabled
  chatIds,         \* config.notify.telegram.chatIds
  cron,            \* config.cron is set
  run_on_startup,  \* config.run_on_startup
  startupDone,     \* the module's last statement has been executed
  cycles,          \* the calls of processBackup: the latest call of each slot
  now,             \* the second of the latest call of new Date()
  procs,           \* the child processes (exec) in flight
  tracing,         \* the cycles record their history (log) in this run
  lastNotify       \* what the latest call of notifyTelegram did

vars == <<databases, isEnabled, chatIds, cron, run_on_startup, startupDone, cycles,
          now, procs, tracing, lastNotify>>

config == <<databases, isEnabled, chatIds, cron, run_on_startup, tracing>>

\* A slot in which processBackup has not been called yet.
Idle == [pc |-> "idle", index |-> 0, file |-> NoFile, log |-> <<>>]

NoNotify == [called |-> FALSE, sends |-> 0, threw |-> FALSE, console |-> "none"]

RECURSIVE SeqsUpTo(_, _)
SeqsUpTo(S, n) ==
  IF n = 0 THEN {<<>>}
  ELSE LET shorter == SeqsUpTo(S, n - 1)
       IN shorter \cup {Append(s, x) : s \in {t \in shorter : Len(t) = n - 1}, x \in S}

ChatIdLists == {[k \in 1..n |-> k] : n \in 0..MaxChats}

\* loadConfig(): the state once the module's top level has run up to the scheduling.
Init ==
  /\ databases \in SeqsUpTo(URIs, MaxTargets)
  /\ isEnabled \in BOOLEAN
  /\ chatIds \in ChatIdLists
  /\ cron \in BOOLEAN
  /\ run_on_startup \in BOOLEAN
  /\ startupDone = FALSE
  /\ cycles = [c \in 1..MaxCycles |-> Idle]
  /\ now = 0
  /\ procs = {}
  /\ tracing = TRUE
  /\ lastNotify = NoNotify

(* ---------------------------- notifyTelegram --------------------------- *)

\* What the promise of one fetch does: a response of any status resolves it, a
\* network error rejects it.
FetchOutcomes == {"resolve", "reject"}

\* No fetch is rejected.
AllResolve == [k \in DOMAIN chatIds |-> "resolve"]

\* The outcomes of the fetches of one call of notifyTelegram; a call that is not
\* enabled makes none.
FetchResults == IF isEnabled THEN [DOMAIN chatIds -> FetchOutcomes] ELSE {AllResolve}

\* The outcomes drawn by a step: those of its call of notifyTelegram, if it makes one.
Fetches(calls) == IF calls THEN FetchResults ELSE {AllResolve}

\* for (const chatId of chatIds) { await fetch(url); }: the sends made, and whether
\* the loop was left by a rejection.
RECURSIVE FetchLoop(_, _)
FetchLoop(outs, k) ==
  IF k > Len(chatIds) THEN [sends |-> Len(chatIds), thrown |-> FALSE]
  ELSE IF outs[k] = "reject" THEN [sends |-> k, thrown |-> TRUE]
  ELSE FetchLoop(outs, k + 1)

\* The body of the try block of notifyTelegram.
NotifyTry(outs) ==
  IF ~isEnabled
    THEN [called |-> TRUE, sends |-> 0, threw |-> FALSE, console |-> "disabled"]
  ELSE IF Len(chatIds) = 0
    THEN [called |-> TRUE, sends |-> 0, threw |-> FALSE, console |-> "noChatIds"]
  ELSE LET loop == FetchLoop(outs, 1)
       IN [called |-> TRUE, sends |-> loop.sends, threw |-> loop.thrown,
           console |-> "none"]

\* Mutant: the error of a send is not caught.
NotifyCatch_Rethrow(r) == r

\* catch(e) { console.error(...) }
NotifyCatch(r) ==
  IF r.threw THEN [r EXCEPT !.threw = FALSE, !.console = "error"] ELSE r

notifyTelegram(outs) == NotifyCatch(NotifyTry(outs))

(* ----------------------------- processBackup --------------------------- *)

\* A step of cycle st.cy works on the cycle, on the notifier's latest call (ln) and
\* on the child processes in flight.
\* A call or a console line made for the current target is added to the history of
\* the cycle, in the runs that keep histories.
Logged(st, event) ==
  IF tracing THEN [st EXCEPT !.cy.log = Append(@, <<st.cy.index, event>>)] ELSE st

\* An error leaves processBackup: the promise it returned is rejected.
Rejected(st) == [st EXCEPT !.cy.pc = "rejected"]

\* exec(command): a child process is started.
Exec(st, cmd) ==
  [Logged(st, cmd) EXCEPT
     !.procs = @ \cup {[cycle |-> st.id, cmd |-> cmd, file |-> st.cy.file]}]

\* The child process has exited: the promise of exec settles.
Exited(st, cmd) ==
  [st EXCEPT !.procs = @ \ {[cycle |-> st.id, cmd |-> cmd, file |-> st.cy.file]}]

\* The end of the body of the for loop: the next entry, or the end of the function.
LoopNext(st) ==
  IF st.cy.index < Len(databases)
    THEN [st EXCEPT !.cy.pc = "iter", !.cy.index = @ + 1, !.cy.file = NoFile]
    ELSE [st EXCEPT !.cy.pc = "returned", !.cy.file = NoFile]

\* Mutant: no test of the empty list; the loop over no entry logs nothing.
Called_NoEmptyCheck ==
  IF Len(databases) = 0
    THEN [pc |-> "returned", index |-> 0, file |-> NoFile, log |-> <<>>]
    ELSE [pc |-> "iter", index |-> 1, file |-> NoFile, log |-> <<>>]

\* The call processBackup() up to the for loop.
Called ==
  IF Len(databases) = 0
    THEN [pc |-> "returned", index |-> 0, file |-> NoFile,
          log |-> IF tracing THEN <<<<0, "logNoDatabases">>>> ELSE <<>>]
    ELSE [pc |-> "iter", index |-> 1, file |-> NoFile, log |-> <<>>]

\* From the head of the loop body to `await notifyTelegram(startBackupMessage)`.
IterationStart(st, date, outs) ==
  LET url == URL(databases[st.cy.index])
  IN IF url.threw
       THEN Rejected(Logged(st, "urlThrew"))
       ELSE LET r == notifyTelegram(outs)
                s1 == [Logged(Logged(st, "url"), "notifyStart")
                         EXCEPT !.ln = r, !.cy.file = filename(url, date)]
            IN IF r.threw THEN Rejected(s1) ELSE [s1 EXCEPT !.cy.pc = "switch"]

\* Mutant: the default case leaves the switch (break), not the function.
UnknownType_Break(st) == LoopNext(Logged(st, "logUnknown"))

\* The default case of the switch.
UnknownType(st) == [Logged(st, "logUnknown") EXCEPT !.cy.pc = "returned"]

\* Mutant: exec(dumpCommand) is not awaited, the tar starts at once.
Switch_NoAwait(st) ==
  LET s1 == Logged(st, "logStart")
  IN IF st.cy.file.dbType \in SupportedTypes
       THEN [Exec(Logged(Exec(s1, "dump"), "dumpOk"), "tar")
               EXCEPT !.cy.pc = "compressing"]
       ELSE UnknownType(s1)

\* console.log(startBackupMessage), the switch and exec(dumpCommand).
Switch(st) ==
  LET s1 == Logged(st, "logStart")
  IN IF st.cy.file.dbType \in SupportedTypes
       THEN [Exec(s1, "dump") EXCEPT !.cy.pc = "dumping"]
       ELSE UnknownType(s1)

\* Mutant: the catch block ends the function after its report.
Catch_Return(st, outs) ==
  LET r == notifyTelegram(outs)
      s1 == [Logged(st, "notifyFailure") EXCEPT !.ln = r]
  IN IF r.threw THEN Rejected(s1)
     ELSE [Logged(s1, "logFailure") EXCEPT !.cy.pc = "returned", !.cy.file = NoFile]

\* The catch block of the loop body.
Catch(st, outs) ==
  LET r == notifyTelegram(outs)
      s1 == [Logged(st, "notifyFailure") EXCEPT !.ln = r]
  IN IF r.threw THEN Rejected(s1) ELSE LoopNext(Logged(s1, "logFailure"))

\* Mutant: a failed dump is run again.
AfterDump_Retry(st, ok, outs) ==
  IF ok
    THEN [Exec(Logged(Exited(st, "dump"), "dumpOk"), "tar")
            EXCEPT !.cy.pc = "compressing"]
    ELSE Exec(Logged(Exited(st, "dump"), "dumpFailed"), "dump")

\* `await exec(dumpCommand)` has settled; on success exec(tar ...).
AfterDump(st, ok, outs) ==
  IF ok
    THEN [Exec(Logged(Exited(st, "dump"), "dumpOk"), "tar")
            EXCEPT !.cy.pc = "compressing"]
    ELSE Catch(Logged(Exited(st, "dump"), "dumpFailed"), outs)

\* Mutant: a failed tar or read is swallowed without a report.
AfterTar_Unreported(st, ok, readOk, outs) ==
  LET s0 == Exited(st, "tar")
  IN IF ~ok THEN LoopNext(Logged(s0, "tarFailed"))
     ELSE IF ~readOk THEN LoopNext(Logged(Logged(s0, "tarOk"), "readFailed"))
     ELSE [Logged(Logged(Logged(s0, "tarOk"), "readOk"), "upload")
             EXCEPT !.cy.pc = "uploading"]

\* `await exec(tar ...)` has settled; then fs.readFileSync and s3Client.send.
AfterTar(st, ok, readOk, outs) ==
  LET s0 == Exited(st, "tar")
  IN IF ~ok THEN Catch(Logged(s0, "tarFailed"), outs)
     ELSE IF ~readOk THEN Catch(Logged(Logged(s0, "tarOk"), "readFailed"), outs)
     ELSE [Logged(Logged(Logged(s0, "tarOk"), "readOk"), "upload")
             EXCEPT !.cy.pc = "uploading"]

\* Mutant: s3Client.send is not awaited, its failure goes unseen.
AfterUpload_Unchecked(st, ok, outs) ==
  LET r == notifyTelegram(outs)
      s1 == [Logged(Logged(st, IF ok THEN "uploadOk" ELSE "uploadFailed"),
                    "notifySuccess") EXCEPT !.ln = r]
  IN IF r.threw THEN Catch(s1, outs) ELSE LoopNext(Logged(s1, "logSuccess"))

\* `await s3Client.send(putCommand)` has settled; then the success message.
AfterUpload(st, ok, outs) ==
  IF ~ok THEN Catch(Logged(st, "uploadFailed"), outs)
  ELSE LET r == notifyTelegram(outs)
           s1 == [Logged(Logged(st, "uploadOk"), "notifySuccess")
                    EXCEPT !.ln = r]
       IN IF r.threw THEN Catch(s1, outs)
          ELSE LoopNext(Logged(s1, "logSuccess"))

(* ------------------------------- actions ------------------------------- *)

\* new URL(databases[i]) does not throw.
Parses(i) == ~URL(databases[i]).threw

Cycles == 1..MaxCycles

St(c) == [id |-> c, cy |-> cycles[c], ln |-> lastNotify, procs |-> procs]

Becomes(c, st) ==
  /\ cycles' = [cycles EXCEPT ![c] = st.cy]
  /\ lastNotify' = st.ln
  /\ procs' = st.procs
  /\ UNCHANGED <<config, startupDone>>

Active(c) == cycles[c].pc \notin {"idle", "returned", "rejected"}

\* processBackup() is called: by the cron job or by the last statement of the module.
\* The call takes the first slot whose call, if any, has finished.
StartCycle ==
  \E c \in Cycles :
    /\ ~Active(c)
    /\ \A d \in 1..(c - 1) : Active(d)
    /\ cycles' = [cycles EXCEPT ![c] = Called]

\* if (config.run_on_startup) { processBackup(); }: the end of the module's top level.
Startup ==
  /\ ~startupDone
  /\ startupDone' = TRUE
  /\ IF run_on_startup THEN StartCycle ELSE UNCHANGED cycles
  /\ UNCHANGED <<config, now, procs, lastNotify>>

\* The cron job fires: new CronJob(config.cron, processBackup) calls processBackup,
\* whether or not an earlier call has finished.
CronTick ==
  /\ startupDone
  /\ cron
  /\ StartCycle
  /\ UNCHANGED <<config, startupDone, now, procs, lastNotify>>

\* The cron job fires while no cycle is in progress.
CronTickIdle ==
  /\ \A c \in Cycles : ~Active(c)
  /\ CronTick

\* The clock is read by new Date() only: it shows the second of the latest reading
\* or a later one.
IterStart(c) ==
  /\ cycles[c].pc = "iter"
  /\ \E date \in now..MaxTime, outs \in Fetches(Parses(cycles[c].index)) :
       /\ Becomes(c, IterationStart(St(c), date, outs))
       /\ now' = (IF Parses(cycles[c].index) THEN date ELSE now)

SwitchStep(c) ==
  /\ cycles[c].pc = "switch"
  /\ Becomes(c, Switch(St(c)))
  /\ UNCHANGED now

DumpExit(c) ==
  /\ cycles[c].pc = "dumping"
  /\ \E ok \in BOOLEAN : \E outs \in Fetches(~ok) :
       Becomes(c, AfterDump(St(c), ok, outs))
  /\ UNCHANGED now

TarExit(c) ==
  /\ cycles[c].pc = "compressing"
  /\ \E ok \in BOOLEAN, readOk \in BOOLEAN : \E outs \in Fetches(~(ok /\ readOk)) :
       Becomes(c, AfterTar(St(c), ok, readOk, outs))
  /\ UNCHANGED now

UploadExit(c) ==
  /\ cycles[c].pc = "uploading"
  /\ \E ok \in BOOLEAN, outs \in FetchResults :
       Becomes(c, AfterUpload(St(c), ok, outs))
  /\ UNCHANGED now

CycleStep ==
  \E c \in Cycles :
    \/ IterStart(c)
    \/ SwitchStep(c)
    \/ DumpExit(c)
    \/ TarExit(c)
    \/ UploadExit(c)

\* The scheduler fires a cycle only when the previous one has finished.
Next ==
  \/ Startup
  \/ CronTickIdle
  \/ CycleStep

Spec == Init /\ [][Next]_vars

\* The scheduler as the code sets it up: a tick starts a cycle whatever is running.
NextOverlap ==
  \/ Startup
  \/ CronTick
  \/ CycleStep

\* The configurations explored with cycles overlapping: a schedule is set, the list
\* is not empty, TELEGRAM_CHAT_IDS is not set, and the cycles keep no history.
InitOverlap ==
  /\ databases \in SeqsUpTo(URIs, MaxOverlapTargets) \ {<<>>}
  /\ isEnabled \in BOOLEAN
  /\ chatIds = <<>>
  /\ cron = TRUE
  /\ run_on_startup \in BOOLEAN
  /\ startupDone = FALSE
  /\ cycles = [c \in 1..MaxCycles |-> Idle]
  /\ now = 0
  /\ procs = {}
  /\ tracing = FALSE
  /\ lastNotify = NoNotify

SpecOverlap == InitOverlap /\ [][NextOverlap]_vars

(* --------------------------- reading a history ------------------------- *)

Log(c) == cycles[c].log

Targets == 1..Len(databases)

\* Event e of target i is in the history of cycle c.
Has(c, i, e) == \E k \in DOMAIN Log(c) : Log(c)[k] = <<i, e>>

Count(c, i, e) == Cardinality({k \in DOMAIN Log(c) : Log(c)[k] = <<i, e>>})

Finished(c) == cycles[c].pc \in {"returned", "rejected"}

\* The slots in which processBackup has been called.
Started == {c \in Cycles : cycles[c].pc # "idle"}

Supported(i) == Parses(i) /\ dbType(URL(databases[i])) \in SupportedTypes

\* Cycle c has reached target i and is through with it.
Through(c, i) == Has(c, i, "url") /\ (cycles[c].index > i \/ Finished(c))

PipelineEvents ==
  {"dump", "dumpOk", "dumpFailed", "tar", "tarOk", "tarFailed", "readOk", "readFailed",
   "upload", "uploadOk", "uploadFailed"}

(* ------------------------------- claims -------------------------------- *)

\* C1 as stated: when the dump of target i fails and i is not the last target, the
\* failure of i is notified and target i+1 gets its in-progress notification and its
\* dump attempt.  Read on the cycles that have returned.
C1_NextTargetDumped ==
  \A c \in Started : \A i \in Targets :
    (cycles[c].pc = "returned" /\ i < Len(databases) /\ Has(c, i, "dumpFailed"))
      => /\ Has(c, i, "notifyFailure")
         /\ Has(c, i + 1, "notifyStart")
         /\ Has(c, i + 1, "dump")

\* C1 amended: when the dump of target i fails, the failure of i is notified and the
\* cycle goes on to target i+1: once the cycle has finished it has parsed the
\* connection string of i+1, has emitted the in-progress notification of i+1 if the
\* string parses, and has attempted the dump of i+1 if moreover its engine is one of
\* the three supported.
C1_NextTargetStarted ==
  \A c \in Started : \A i \in Targets :
    Has(c, i, "dumpFailed")
      => /\ Has(c, i, "notifyFailure")
         /\ (Finished(c) /\ i < Len(databases))
              => /\ Has(c, i + 1, "url") \/ Has(c, i + 1, "urlThrew")
                 /\ Parses(i + 1) => Has(c, i + 1, "notifyStart")
                 /\ Supported(i + 1) => Has(c, i + 1, "dump")

C1_Witness ==
  \E c \in Cycles :
    /\ Has(c, 1, "dumpFailed")
    /\ Has(c, 1, "notifyFailure")
    /\ Has(c, 2, "dump")

\* C2: once a cycle has met a target of an unknown engine, it has logged the unknown
\* type and returned, no dump, tar or upload was made for that target, and nothing at
\* all (no notification, dump or upload) was done for a later target.
C2_UnknownEngineEndsCycle ==
  \A c \in Started : \A i \in Targets :
    (Parses(i) /\ ~Supported(i) /\ Has(c, i, "url"))
      => /\ \A k \in DOMAIN Log(c) :
              /\ Log(c)[k][1] <= i
              /\ Log(c)[k][1] = i => Log(c)[k][2] \notin PipelineEvents
         /\ \A p \in procs : p.cycle # c
         /\ Has(c, i, "logStart")
              => /\ Has(c, i, "logUnknown")
                 /\ cycles[c].pc = "returned"
                 /\ cycles[c].index = i

C2_Witness ==
  \E c \in Cycles :
    /\ Len(databases) >= 2
    /\ Has(c, 1, "logUnknown")
    /\ Supported(2)
    /\ cycles[c].pc = "returned"

\* C3 as stated: a call of notifyTelegram with notifications enabled makes one send
\* for every configured chat id, whatever sends fail.
C3_EveryDestinationTried ==
  (lastNotify.called /\ isEnabled) => lastNotify.sends = Len(chatIds)

\* C4 as stated: no error leaves processBackup.
C4_NoErrorEscapes ==
  \A c \in Cycles : cycles[c].pc # "rejected"

\* C5 as stated: at most one dump is running in the process at any time, and so no
\* two dumps in flight write the same file.
C5_OneDumpInProcess ==
  \A p, q \in procs :
    (p.cmd = "dump" /\ q.cmd = "dump") => p = q

\* C5 amended: a cycle has at most one child process (a dump or a tar) in flight,
\* the one of its current target, so two dumps in flight belong to two cycles in
\* progress at the same time.
C5_OneDumpPerCycle ==
  /\ \A p, q \in procs : p.cycle = q.cycle => p = q
  /\ \A p \in procs :
       /\ cycles[p.cycle].pc = (IF p.cmd = "dump" THEN "dumping" ELSE "compressing")
       /\ cycles[p.cycle].file = p.file

\* Two cycles in progress at once, their dumps writing the same file.
C5_Witness ==
  \E p, q \in procs :
    /\ p.cmd = "dump"
    /\ q.cmd = "dump"
    /\ p.cycle # q.cycle
    /\ p.file = q.file

\* C6: a call of notifyTelegram never raises, and makes no send when notifications
\* are disabled or no chat id is configured.
C6_NotifyNeverRaises ==
  lastNotify.called
    => /\ ~lastNotify.threw
       /\ (~isEnabled \/ Len(chatIds) = 0) => lastNotify.sends = 0
       /\ \A c \in Cycles :
            cycles[c].pc = "rejected" => Has(c, cycles[c].index, "urlThrew")

\* A send failed and the call returned all the same.
C6_Witness ==
  /\ lastNotify.called
  /\ lastNotify.console = "error"
  /\ ~lastNotify.threw
  /\ \E c \in Cycles : Has(c, 1, "logStart")

\* C7: with an empty list a cycle logs one line and returns: no dump, no tar, no
\* upload, no notification.
C7_EmptyListDoesNothing ==
  \A c \in Started :
    Len(databases) = 0
      => /\ cycles[c].pc = "returned"
         /\ Log(c) = <<<<0, "logNoDatabases">>>>
         /\ procs = {}
         /\ ~lastNotify.called

C7_Witness ==
  \E c \in Cycles :
    /\ Len(databases) = 0
    /\ cycles[c].pc = "returned"

\* C8: a cycle takes its targets in the order of the list and one at a time: the
\* history starts with the first target, never goes back to an earlier target, and
\* moves on from a target only to the next one and only right after the outcome of
\* that target was reported; a child process in flight is one of the current target.
C8_TargetsInOrder ==
  \A c \in Started :
    /\ Log(c) # <<>> => Log(c)[1][1] <= 1
    /\ \A l \in 2..Len(Log(c)) :
         \/ Log(c)[l][1] = Log(c)[l - 1][1]
         \/ /\ Log(c)[l][1] = Log(c)[l - 1][1] + 1
            /\ Log(c)[l - 1][2] \in {"logSuccess", "logFailure"}
    /\ Log(c) # <<>> => Log(c)[Len(Log(c))][1] <= cycles[c].index
    /\ \A p \in procs : p.cycle = c => p.file = cycles[c].file

C8_Witness ==
  \E c \in Cycles :
    /\ Has(c, 1, "logFailure")
    /\ Has(c, 2, "logSuccess")

\* C9: the steps of a target come in a fixed order, each right after the one before
\* it succeeded: the in-progress notification, then the dump, the tar after the dump
\* succeeded, the read after the tar succeeded, the upload after the read succeeded,
\* the success notification after the upload succeeded; a failed step is followed
\* by the failure report and by no other step of the target.
C9_StepsGated ==
  \A c \in Started : \A l \in DOMAIN Log(c) :
    LET i == Log(c)[l][1]
        e == Log(c)[l][2]
        prev == IF l > 1 THEN Log(c)[l - 1] ELSE <<0, "none">>
    IN /\ e = "notifyStart" => prev = <<i, "url">>
       /\ e = "logStart" => prev = <<i, "notifyStart">>
       /\ e = "dump" => prev = <<i, "logStart">>
       /\ e \in {"dumpOk", "dumpFailed"} => prev = <<i, "dump">>
       /\ e = "tar" => prev = <<i, "dumpOk">>
       /\ e \in {"tarOk", "tarFailed"} => prev = <<i, "tar">>
       /\ e \in {"readOk", "readFailed"} => prev = <<i, "tarOk">>
       /\ e = "upload" => prev = <<i, "readOk">>
       /\ e \in {"uploadOk", "uploadFailed"} => prev = <<i, "upload">>
       /\ e = "notifySuccess" => prev = <<i, "uploadOk">>
       /\ e = "logSuccess" => prev = <<i, "notifySuccess">>
       /\ prev[2] \in {"dumpFailed", "tarFailed", "readFailed", "uploadFailed"}
            => Log(c)[l] = <<prev[1], "notifyFailure">>
       /\ prev[2] = "notifyFailure" => Log(c)[l] = <<prev[1], "logFailure">>
       /\ prev[2] \in {"logSuccess", "logFailure"} => i > prev[1]

C9_Witness ==
  \E c \in Cycles :
    /\ Has(c, 1, "logSuccess")
    /\ Has(c, 2, "uploadFailed")
    /\ Finished(c)

\* C10: a target of a supported engine that a cycle has been through got exactly one
\* dump attempt, at most one upload attempt and exactly one outcome notification,
\* the success message or the failure message; and no target ever gets more.
C10_OnceEach ==
  \A c \in Started : \A i \in 1..cycles[c].index :
    LET dumps == Count(c, i, "dump")
        uploads == Count(c, i, "upload")
        outcomes ==
          Cardinality({k \in DOMAIN Log(c) :
                         Log(c)[k] \in {<<i, "notifySuccess">>, <<i, "notifyFailure">>}})
    IN /\ dumps <= 1
       /\ uploads <= 1
       /\ outcomes <= 1
       /\ (Supported(i) /\ Through(c, i)) => (dumps = 1 /\ outcomes = 1)

\* The success message of a target could not be delivered, and the cycle is through
\* with the target.
C10_Witness ==
  \E c \in Cycles :
    /\ Len(Log(c)) > 0
    /\ Log(c)[Len(Log(c))] = <<1, "logSuccess">>
    /\ lastNotify.console = "error"
    /\ Through(c, 1)

====
